---- MODULE Spec2Model ----
(***************************************************************************)
(* Model of the jjlpc pipeline: the Collector (pa.py), the line reader of  *)
(* the Analyzer (qgqx.py) and the Server's request handlers (app.py).      *)
(* Text is a sequence of one-character strings; "\n" is the line break.    *)
(* Chinese string literals of the source are written as ASCII tokens.      *)
(***************************************************************************)
EXTENDS Integers, Sequences, FiniteSets, TLC

VARIABLES
    \* ---- Collector (pa.py) ----
    pc,            \* position of main()
    cid,           \* result of get_video_cid ("" is <<>>)
    danmu_list,    \* result of crawl_danmu
    comment_list,  \* crawl_comments: the list being built
    page,          \* crawl_comments: page index
    stopped,       \* crawl_comments: the loop was left by a break
    requests,      \* number of reply-page requests issued in this run
    failures,      \* number of reply-page attempts that raised
    last_req,      \* page index of the last reply-page request (-1: none)
    full_pages,    \* records of the pages whose processing completed, in order
    files,         \* the two output files on disk
    files0,        \* the files as they were when the run started
    save_type,     \* save_data: data_type of the call in progress
    save_idx,      \* save_data: records written so far
    log,           \* console messages printed so far
    issued,        \* kinds of HTTP request issued so far
    remote_pages,  \* reply pages the remote site has for this video
    \* ---- Server (app.py) and Analyzer reader (qgqx.py) ----
    word_freq_data,
    sentiment_data,
    bilibili_danmu, \* list of raw lines (f.readlines())
    loaded,         \* the Server's module-level loading has run
    df,             \* read_danmu_file: list of {content, time}; <<>> before
    df_read,        \* read_danmu_file has returned
    hpc,            \* per client: position in the handler
    hreq,           \* per client: the request's route and query parameters
    hi,             \* per client: search loop index i (lines examined)
    hresults,       \* per client: search results list
    hbroke,         \* per client: search loop left by break
    response        \* per client: last JSON response

colvars == <<pc, cid, danmu_list, comment_list, page, stopped, requests,
             failures, last_req, full_pages, files, files0, save_type,
             save_idx, log, issued, remote_pages>>
readvars == <<bilibili_danmu, loaded, df, df_read>>
artifacts == <<word_freq_data, sentiment_data, bilibili_danmu>>
hvars == <<hpc, hreq, hi, hresults, hbroke, response>>
vars == <<colvars, word_freq_data, sentiment_data, readvars, hvars>>

----------------------------------------------------------------------------
(* Bounds of the model *)
MaxTags == 2        \* <d> elements in one overlay response
MaxReplies == 2     \* replies in one reply page
MaxComments == 2    \* records collected by crawl_comments
MaxFailures == 1    \* reply-page attempts that raise
MaxRemote == 2      \* reply pages of the remote site in the full runs
MaxDanmu == 2       \* overlay comments saved in the round-trip runs
MaxLines == 2       \* lines of a loaded overlay file
MaxWords == 101     \* entries of the word-frequency artifact

(* Program constants *)
max_page == 100
TopN == 100
DefaultLimit == 50
TimeMod == 1000

----------------------------------------------------------------------------
(* Text helpers: Python str methods *)

Whitespace == {" ", "\n"}

Min(a, b) == IF a <= b THEN a ELSE b

RECURSIVE lstrip(_)
lstrip(s) ==
    IF s # <<>> /\ Head(s) \in Whitespace THEN lstrip(Tail(s)) ELSE s

RECURSIVE rstrip(_)
rstrip(s) ==
    IF s # <<>> /\ s[Len(s)] \in Whitespace
    THEN rstrip(SubSeq(s, 1, Len(s) - 1)) ELSE s

strip(s) == rstrip(lstrip(s))

\* str.find(ch): 0-based position of the first occurrence, -1 when absent
find(s, ch) ==
    IF \E i \in 1..Len(s) : s[i] = ch
    THEN (CHOOSE i \in 1..Len(s) :
              s[i] = ch /\ \A j \in 1..(i - 1) : s[j] # ch) - 1
    ELSE -1

\* s[k:] for a 0-based k
SliceFrom(s, k) == SubSeq(s, k + 1, Len(s))

\* re.search(re.escape(keyword), content): literal substring test
re_search(keyword, content) ==
    \E i \in 0..(Len(content) - Len(keyword)) :
        SubSeq(content, i + 1, i + Len(keyword)) = keyword

Digits == <<"0", "1", "2", "3", "4", "5", "6", "7", "8", "9">>

\* str(n) for n >= 0
RECURSIVE str(_)
str(n) ==
    IF n < 10 THEN <<Digits[n + 1]>>
    ELSE str(n \div 10) \o <<Digits[(n % 10) + 1]>>

RECURSIVE Concat(_)
Concat(ss) == IF ss = <<>> THEN <<>> ELSE Head(ss) \o Concat(Tail(ss))

SeqsUpTo(S, n) == UNION {[1..k -> S] : k \in 0..n}

----------------------------------------------------------------------------
(* Collector: get_video_cid *)

\* What the view request can produce: requests.get raising, raise_for_status
\* raising, a body that is not JSON, or a JSON body with a code and, when
\* has_cid, data.cid.
ViewResponses ==
    {[kind |-> k, code |-> 0, has_cid |-> FALSE, cid_val |-> 0] :
        k \in {"exception", "http_error", "bad_json"}}
    \cup {[kind |-> "json", code |-> c, has_cid |-> h, cid_val |-> 7] :
        c \in {0, -400}, h \in BOOLEAN}

\* the value get_video_cid returns (<<>> is "")
get_video_cid(resp) ==
    IF resp.kind = "json" /\ resp.code = 0 /\ resp.has_cid
    THEN str(resp.cid_val)
    ELSE <<>>

\* the message get_video_cid prints
get_video_cid_log(resp) ==
    IF resp.kind = "json" /\ resp.code = 0 /\ resp.has_cid THEN "cid_ok"
    ELSE IF resp.kind = "json" /\ resp.code # 0 THEN "cid_failed"
    ELSE "cid_exception"

\* main without its early return
AfterCidNoReturn(c) == "crawl_danmu"

\* main: if not cid: return
AfterCid(c) == IF c = <<>> THEN "exit" ELSE "crawl_danmu"

GetCid ==
    /\ pc = "get_cid"
    /\ \E resp \in ViewResponses :
        /\ cid' = get_video_cid(resp)
        /\ log' = log \cup {get_video_cid_log(resp)}
                      \cup (IF get_video_cid(resp) = <<>>
                            THEN {"main_exit_no_cid"} ELSE {})
        /\ pc' = AfterCid(get_video_cid(resp))
    /\ issued' = issued \cup {"view"}
    /\ UNCHANGED <<danmu_list, comment_list, page, stopped, requests, failures,
                   last_req, full_pages, files, files0, save_type, save_idx,
                   remote_pages>>
    /\ UNCHANGED <<word_freq_data, sentiment_data, readvars, hvars>>

----------------------------------------------------------------------------
(* Collector: crawl_danmu *)

\* d_tag.text of one <d> element: None for an empty element, else its text
DTagValues ==
    {[is_none |-> TRUE, text |-> <<>>],
     [is_none |-> FALSE, text |-> <<" ">>],
     [is_none |-> FALSE, text |-> <<"a", " ">>]}

DanmuResponses ==
    {[kind |-> k, tags |-> <<>>] : k \in {"exception", "bad_xml"}}
    \cup {[kind |-> "xml", tags |-> t] : t \in SeqsUpTo(DTagValues, MaxTags)}

\* the for loop over xml_tree.xpath("//d"): None.strip() raises
RECURSIVE danmu_loop(_, _)
danmu_loop(tags, acc) ==
    IF tags = <<>> THEN [list |-> acc, raised |-> FALSE]
    ELSE IF Head(tags).is_none THEN [list |-> acc, raised |-> TRUE]
    ELSE LET danmu_content == strip(Head(tags).text)
         IN danmu_loop(Tail(tags),
                       IF danmu_content # <<>>
                       THEN Append(acc, danmu_content) ELSE acc)

\* the list crawl_danmu returns, and whether its except branch ran
crawl_danmu(resp) ==
    IF resp.kind # "xml" THEN [list |-> <<>>, raised |-> TRUE]
    ELSE danmu_loop(resp.tags, <<>>)

CrawlDanmu ==
    /\ pc = "crawl_danmu"
    /\ \E resp \in DanmuResponses :
        LET r == crawl_danmu(resp) IN
        /\ danmu_list' = r.list
        /\ log' = log \cup {IF r.raised THEN "danmu_exception" ELSE "danmu_ok"}
        /\ IF r.list # <<>>
           THEN pc' = "save_open" /\ save_type' = "danmu" /\ save_idx' = 0
           ELSE pc' = "crawl_comments" /\ UNCHANGED <<save_type, save_idx>>
    /\ issued' = issued \cup {"danmu"}
    /\ UNCHANGED <<cid, comment_list, page, stopped, requests, failures,
                   last_req, full_pages, files, files0, remote_pages>>
    /\ UNCHANGED <<word_freq_data, sentiment_data, readvars, hvars>>

----------------------------------------------------------------------------
(* Collector: save_data *)

SaveData == IF save_type = "danmu" THEN danmu_list ELSE comment_list

\* f"{idx}. {danmu}\n"
DanmuLine(idx, danmu) == str(idx) \o <<".", " ">> \o danmu \o <<"\n">>

\* the five f.write calls of one reply record
CommentWrites(idx, c) ==
    << <<"===== comment ">> \o str(idx) \o <<" =====", "\n">>,
       <<"uname:">> \o c.uname \o <<"\n">>,
       <<"ctime:">> \o c.ctime \o <<"\n">>,
       <<"like:">> \o str(c.like) \o <<" | rcount:">> \o str(c.rcount)
           \o <<"\n">>,
       <<"content:">> \o c.content \o <<"\n", "\n">> >>

RecordWrites(type, idx, rec) ==
    IF type = "danmu" THEN <<DanmuLine(idx, rec)>> ELSE CommentWrites(idx, rec)

\* where main continues after save_data returns
AfterSave(type) == IF type = "danmu" THEN "crawl_comments" ELSE "exit"

SaveFailedMsg(type) ==
    IF type = "danmu" THEN "save_failed_danmu" ELSE "save_failed_comment"

SavedMsg(type) == IF type = "danmu" THEN "saved_danmu" ELSE "saved_comment"

\* open(save_path, "w"): creates or truncates the file, or raises
SaveOpen ==
    /\ pc = "save_open"
    /\ \/ /\ files' = [files EXCEPT ![save_type] =
                           [exists |-> TRUE, text |-> <<>>]]
          /\ pc' = "save_write"
          /\ save_idx' = 0
          /\ UNCHANGED log
       \/ /\ log' = log \cup {SaveFailedMsg(save_type)}
          /\ pc' = AfterSave(save_type)
          /\ UNCHANGED <<files, save_idx>>
    /\ UNCHANGED <<cid, danmu_list, comment_list, page, stopped, requests,
                   failures, last_req, full_pages, files0, save_type, issued,
                   remote_pages>>
    /\ UNCHANGED <<word_freq_data, sentiment_data, readvars, hvars>>

\* one iteration of the enumerate loop: all its writes succeed, or one of
\* them raises after the earlier ones reached the file
SaveWrite ==
    /\ pc = "save_write"
    /\ save_idx < Len(SaveData)
    /\ LET w == RecordWrites(save_type, save_idx + 1, SaveData[save_idx + 1])
       IN \/ /\ files' = [files EXCEPT ![save_type].text = @ \o Concat(w)]
             /\ save_idx' = save_idx + 1
             /\ UNCHANGED <<pc, log>>
          \/ \E k \in 0..(Len(w) - 1) :
             /\ files' = [files EXCEPT ![save_type].text =
                              @ \o Concat(SubSeq(w, 1, k))]
             /\ log' = log \cup {SaveFailedMsg(save_type)}
             /\ pc' = AfterSave(save_type)
             /\ UNCHANGED save_idx
    /\ UNCHANGED <<cid, danmu_list, comment_list, page, stopped, requests,
                   failures, last_req, full_pages, files0, save_type, issued,
                   remote_pages>>
    /\ UNCHANGED <<word_freq_data, sentiment_data, readvars, hvars>>

\* the with block ends and the success message is printed
SaveClose ==
    /\ pc = "save_write"
    /\ save_idx = Len(SaveData)
    /\ log' = log \cup {SavedMsg(save_type)}
    /\ pc' = AfterSave(save_type)
    /\ UNCHANGED <<cid, danmu_list, comment_list, page, stopped, requests,
                   failures, last_req, full_pages, files, files0, save_type,
                   save_idx, issued, remote_pages>>
    /\ UNCHANGED <<word_freq_data, sentiment_data, readvars, hvars>>

----------------------------------------------------------------------------
(* Collector: crawl_comments *)

\* One reply object of a page. message_none: the message is JSON null (or
\* the reply is otherwise not the expected object), so .strip() raises.
ReplyValues ==
    {[uname |-> <<"u">>, message_none |-> n, message |-> m,
      ctime |-> 0, like |-> 0, rcount |-> 0] :
        n \in {FALSE}, m \in {<<" ">>, <<"a">>, <<" ", "b">>}}
    \cup {[uname |-> <<"u">>, message_none |-> TRUE, message |-> <<>>,
           ctime |-> 0, like |-> 0, rcount |-> 0]}

\* What a reply-page request can produce: an exception from the request,
\* raise_for_status or response.json(), or a JSON body with a code and replies.
ReplyResponses ==
    {[kind |-> "exception", code |-> 0, replies |-> <<>>]}
    \cup {[kind |-> "json", code |-> -400, replies |-> <<>>]}
    \cup {[kind |-> "json", code |-> 0, replies |-> r] :
            r \in SeqsUpTo(ReplyValues, MaxReplies)}

\* time.strftime("%Y-%m-%d %H:%M:%S", time.localtime(ctime)): a text fixed by
\* ctime; the calendar arithmetic is not part of the model
strftime(t) == <<"T">> \o str(t)

\* the dict built for one reply
comment_info(reply) ==
    [uname |-> reply.uname,
     content |-> strip(reply.message),
     ctime |-> strftime(reply.ctime),
     like |-> reply.like,
     rcount |-> reply.rcount]

\* the for loop over replies, appending to comment_list; a reply whose
\* message is None raises out of the loop with the earlier appends kept
RECURSIVE reply_loop(_, _)
reply_loop(replies, acc) ==
    IF replies = <<>> THEN [list |-> acc, raised |-> FALSE]
    ELSE IF Head(replies).message_none THEN [list |-> acc, raised |-> TRUE]
    ELSE LET info == comment_info(Head(replies))
         IN reply_loop(Tail(replies),
                       IF info.content # <<>> THEN Append(acc, info) ELSE acc)

\* the records a page contributes when it is processed to the end
PageRecords(replies) ==
    LET kept == SelectSeq(replies,
                    LAMBDA r : ~r.message_none /\ strip(r.message) # <<>>)
    IN [k \in 1..Len(kept) |-> comment_info(kept[k])]

\* one iteration of the while loop: one request and what follows it
CrawlPage ==
    /\ pc = "crawl_comments"
    /\ ~stopped
    /\ page < max_page
    /\ requests' = requests + 1
    /\ last_req' = page
    /\ issued' = issued \cup {"reply"}
    /\ \E resp \in ReplyResponses :
        LET r == reply_loop(resp.replies, comment_list) IN
        \/ /\ resp.kind = "exception"
           /\ failures < MaxFailures
           /\ failures' = failures + 1
           /\ log' = log \cup {"comment_exception"}
           /\ UNCHANGED <<comment_list, page, stopped, full_pages>>
        \/ /\ resp.kind = "json" /\ resp.code # 0
           /\ stopped' = TRUE
           /\ log' = log \cup {"comment_failed"}
           /\ UNCHANGED <<comment_list, page, failures, full_pages>>
        \/ /\ resp.kind = "json" /\ resp.code = 0 /\ resp.replies = <<>>
           /\ stopped' = TRUE
           /\ log' = log \cup {"comment_end"}
           /\ UNCHANGED <<comment_list, page, failures, full_pages>>
        \/ /\ resp.kind = "json" /\ resp.code = 0 /\ resp.replies # <<>>
           /\ page < remote_pages
           /\ r.raised
           /\ failures < MaxFailures
           /\ Len(r.list) <= MaxComments
           /\ comment_list' = r.list
           /\ failures' = failures + 1
           /\ log' = log \cup {"comment_exception"}
           /\ UNCHANGED <<page, stopped, full_pages>>
        \/ /\ resp.kind = "json" /\ resp.code = 0 /\ resp.replies # <<>>
           /\ page < remote_pages
           /\ ~r.raised
           /\ Len(r.list) <= MaxComments
           /\ comment_list' = r.list
           /\ page' = page + 1
           /\ full_pages' = full_pages \o PageRecords(resp.replies)
           /\ log' = log \cup {"comment_page"}
           /\ UNCHANGED <<stopped, failures>>
    /\ UNCHANGED <<pc, cid, danmu_list, files, files0, save_type, save_idx,
                   remote_pages>>
    /\ UNCHANGED <<word_freq_data, sentiment_data, readvars, hvars>>

\* the loop is left (break, or page = max_page); crawl_comments returns and
\* main saves the list when it is not empty
CrawlReturn ==
    /\ pc = "crawl_comments"
    /\ stopped \/ page >= max_page
    /\ IF comment_list # <<>>
       THEN pc' = "save_open" /\ save_type' = "comment" /\ save_idx' = 0
       ELSE pc' = "exit" /\ UNCHANGED <<save_type, save_idx>>
    /\ UNCHANGED <<cid, danmu_list, comment_list, page, stopped, requests,
                   failures, last_req, full_pages, files, files0, log, issued,
                   remote_pages>>
    /\ UNCHANGED <<word_freq_data, sentiment_data, readvars, hvars>>

----------------------------------------------------------------------------
(* Readers of the overlay file *)

\* f.readlines(): the text cut after every line break, the breaks kept
RECURSIVE readlines(_)
readlines(text) ==
    IF text = <<>> THEN <<>>
    ELSE LET p == find(text, "\n")
         IN IF p = -1 THEN <<text>>
            ELSE <<SubSeq(text, 1, p + 1)>> \o readlines(SliceFrom(text, p + 1))

\* app.py: the content of one raw line (first-'.' rule)
parse_content(line) ==
    LET dot_pos == find(line, ".")
    IN IF dot_pos # -1 THEN strip(SliceFrom(line, dot_pos + 1))
       ELSE strip(line)

\* qgqx.py: the content of one raw line (first-'.' rule)
read_content(line) ==
    LET dot_pos == find(line, ".")
    IN IF dot_pos # -1 THEN strip(SliceFrom(line, dot_pos + 1))
       ELSE strip(line)

\* qgqx.py read_danmu_file: one {content, time} per line
read_danmu_file(text) ==
    LET lines == readlines(text)
    IN [i \in 1..Len(lines) |->
            [content |-> read_content(lines[i]), time |-> (i - 1) % TimeMod]]

\* the overlay file is on disk and no save_data call is writing it
DanmuFileAtRest ==
    /\ files["danmu"].exists
    /\ ~(pc \in {"save_open", "save_write"} /\ save_type = "danmu")

\* app.py module level: bilibili_danmu = f.readlines()
LoadServer ==
    /\ ~loaded
    /\ DanmuFileAtRest
    /\ bilibili_danmu' = readlines(files["danmu"].text)
    /\ loaded' = TRUE
    /\ UNCHANGED <<colvars, word_freq_data, sentiment_data, df, df_read, hvars>>

\* qgqx.py: df = read_danmu_file(file_path)
ReadDanmuFile ==
    /\ ~df_read
    /\ DanmuFileAtRest
    /\ df' = read_danmu_file(files["danmu"].text)
    /\ df_read' = TRUE
    /\ UNCHANGED <<colvars, word_freq_data, sentiment_data, bilibili_danmu,
                   loaded, hvars>>

----------------------------------------------------------------------------
(* Server: request handlers *)

Clients == {1, 2}

NoRequest ==
    [route |-> "none", has_keyword |-> FALSE, keyword |-> <<>>,
     limit_kind |-> "missing", limit |-> 0]

SimpleRequest(route) == [NoRequest EXCEPT !.route = route]

\* request.args.get('keyword', '')
arg_keyword(q) == IF q.has_keyword THEN q.keyword ELSE <<>>

\* request.args.get('limit', 50, type=int): the default when the parameter
\* is missing or is not an integer
arg_limit(q) == IF q.limit_kind = "int" THEN q.limit ELSE DefaultLimit

\* a guard that never fires
EmptyKeywordNever(keyword) == FALSE

\* if not keyword
EmptyKeyword(keyword) == keyword = <<>>

\* the break test written with > instead of >=
LimitReachedStrict(n, limit) == n > limit

\* if len(results) >= limit: break
LimitReached(n, limit) == n >= limit

\* word_freq_data[:100]
top_words(w) == SubSeq(w, 1, Min(TopN, Len(w)))

\* the body of the search loop for line number i: the results after it
search_iter(line, i, keyword, results) ==
    LET content == parse_content(line)
    IN IF re_search(keyword, content)
       THEN Append(results, [index |-> i, content |-> content])
       ELSE results

\* whether the body for that line ends in break
search_breaks(line, keyword, limit, results) ==
    /\ re_search(keyword, parse_content(line))
    /\ LimitReached(Len(results) + 1, limit)

ErrorResponse == [status |-> "error", message |-> "enter a keyword"]

SearchResponse(keyword, results) ==
    [status |-> "success", keyword |-> keyword, total |-> Len(results),
     data |-> results]

\* search_keyword run from start to end on its own
RECURSIVE search_loop(_, _, _, _, _)
search_loop(lines, i, keyword, limit, results) ==
    IF i >= Len(lines) THEN results
    ELSE IF search_breaks(lines[i + 1], keyword, limit, results)
         THEN search_iter(lines[i + 1], i + 1, keyword, results)
         ELSE search_loop(lines, i + 1, keyword, limit,
                          search_iter(lines[i + 1], i + 1, keyword, results))

search_keyword(lines, q) ==
    IF EmptyKeyword(arg_keyword(q)) THEN ErrorResponse
    ELSE SearchResponse(arg_keyword(q),
             search_loop(lines, 0, arg_keyword(q), arg_limit(q), <<>>))

\* a handler that cuts the loaded list down to its first 100 entries in place
get_word_frequency_inplace(c) ==
    /\ hpc[c] = "idle"
    /\ hreq' = [hreq EXCEPT ![c] = SimpleRequest("word-frequency")]
    /\ word_freq_data' = top_words(word_freq_data)
    /\ response' = [response EXCEPT ![c] =
                        [status |-> "success", data |-> word_freq_data']]
    /\ hpc' = [hpc EXCEPT ![c] = "responded"]
    /\ UNCHANGED <<hi, hresults, hbroke>>
    /\ UNCHANGED <<colvars, sentiment_data, readvars>>

get_word_frequency(c) ==
    /\ hpc[c] = "idle"
    /\ hreq' = [hreq EXCEPT ![c] = SimpleRequest("word-frequency")]
    /\ response' = [response EXCEPT ![c] =
                        [status |-> "success",
                         data |-> top_words(word_freq_data)]]
    /\ hpc' = [hpc EXCEPT ![c] = "responded"]
    /\ UNCHANGED <<hi, hresults, hbroke>>
    /\ UNCHANGED <<colvars, word_freq_data, sentiment_data, readvars>>

get_sentiment_data(c) ==
    /\ hpc[c] = "idle"
    /\ hreq' = [hreq EXCEPT ![c] = SimpleRequest("sentiment-data")]
    /\ response' = [response EXCEPT ![c] =
                        [status |-> "success", data |-> sentiment_data]]
    /\ hpc' = [hpc EXCEPT ![c] = "responded"]
    /\ UNCHANGED <<hi, hresults, hbroke>>
    /\ UNCHANGED <<colvars, word_freq_data, sentiment_data, readvars>>

\* search_keyword up to the loop: the arguments and the empty-keyword guard
SearchBegin(c, q) ==
    /\ hpc[c] = "idle"
    /\ hreq' = [hreq EXCEPT ![c] = q]
    /\ hi' = [hi EXCEPT ![c] = 0]
    /\ hresults' = [hresults EXCEPT ![c] = <<>>]
    /\ hbroke' = [hbroke EXCEPT ![c] = FALSE]
    /\ IF EmptyKeyword(arg_keyword(q))
       THEN /\ response' = [response EXCEPT ![c] = ErrorResponse]
            /\ hpc' = [hpc EXCEPT ![c] = "responded"]
       ELSE /\ hpc' = [hpc EXCEPT ![c] = "loop"]
            /\ UNCHANGED response
    /\ UNCHANGED <<colvars, word_freq_data, sentiment_data, readvars>>

\* one iteration of the for loop over bilibili_danmu
SearchIter(c) ==
    /\ hpc[c] = "loop"
    /\ ~hbroke[c]
    /\ hi[c] < Len(bilibili_danmu)
    /\ LET line == bilibili_danmu[hi[c] + 1]
           keyword == arg_keyword(hreq[c])
       IN /\ hresults' = [hresults EXCEPT ![c] =
                              search_iter(line, hi[c] + 1, keyword, @)]
          /\ hbroke' = [hbroke EXCEPT ![c] =
                            search_breaks(line, keyword, arg_limit(hreq[c]),
                                          hresults[c])]
    /\ hi' = [hi EXCEPT ![c] = @ + 1]
    /\ UNCHANGED <<hpc, hreq, response>>
    /\ UNCHANGED <<colvars, word_freq_data, sentiment_data, readvars>>

\* the loop is over: return jsonify(...)
SearchReturn(c) ==
    /\ hpc[c] = "loop"
    /\ hbroke[c] \/ hi[c] >= Len(bilibili_danmu)
    /\ response' = [response EXCEPT ![c] =
                        SearchResponse(arg_keyword(hreq[c]), hresults[c])]
    /\ hpc' = [hpc EXCEPT ![c] = "responded"]
    /\ UNCHANGED <<hreq, hi, hresults, hbroke>>
    /\ UNCHANGED <<colvars, word_freq_data, sentiment_data, readvars>>

\* the client has its response and may send another request
Receive(c) ==
    /\ hpc[c] = "responded"
    /\ hpc' = [hpc EXCEPT ![c] = "idle"]
    /\ UNCHANGED <<hreq, hi, hresults, hbroke, response>>
    /\ UNCHANGED <<colvars, word_freq_data, sentiment_data, readvars>>

----------------------------------------------------------------------------
(* Initial states and specifications *)

NoFile == [exists |-> FALSE, text |-> <<>>]

\* an overlay or reply file left by an earlier run
OldFile == [exists |-> TRUE, text |-> <<"1", ".", " ", "o", "\n">>]

InitialFiles ==
    {[danmu |-> NoFile, comment |-> NoFile],
     [danmu |-> OldFile, comment |-> OldFile]}

NoSentiment == [total |-> 0, average |-> 0]

ServerIdle ==
    /\ hpc = [c \in Clients |-> "idle"]
    /\ hreq = [c \in Clients |-> NoRequest]
    /\ hi = [c \in Clients |-> 0]
    /\ hresults = [c \in Clients |-> <<>>]
    /\ hbroke = [c \in Clients |-> FALSE]
    /\ response = [c \in Clients |-> [status |-> "none"]]

ServerNotStarted ==
    /\ word_freq_data = <<>>
    /\ sentiment_data = NoSentiment
    /\ bilibili_danmu = <<>>
    /\ loaded = FALSE
    /\ df = <<>>
    /\ df_read = FALSE
    /\ ServerIdle

\* the locals of crawl_comments and save_data before their calls
CollectorLocals ==
    /\ comment_list = <<>>
    /\ page = 0
    /\ stopped = FALSE
    /\ requests = 0
    /\ failures = 0
    /\ last_req = -1
    /\ full_pages = <<>>
    /\ save_type = "danmu"
    /\ save_idx = 0

\* pa.py main() is entered
Init ==
    /\ pc = "get_cid"
    /\ cid = <<>>
    /\ danmu_list = <<>>
    /\ CollectorLocals
    /\ files \in InitialFiles
    /\ files0 = files
    /\ log = {}
    /\ issued = {}
    /\ remote_pages \in 0..MaxRemote
    /\ ServerNotStarted

Next ==
    \/ GetCid
    \/ CrawlDanmu
    \/ SaveOpen
    \/ SaveWrite
    \/ SaveClose
    \/ CrawlPage
    \/ CrawlReturn

Spec == Init /\ [][Next]_vars

\* overlay comments as crawl_danmu returns them: trimmed and not empty
SampleDanmu ==
    {<<"a">>, <<".">>, <<"a", ".", "b">>, <<"a", " ", "b">>,
     <<"a", "\n", "b">>}

\* main() has a non-empty danmu_list and calls save_data on it; the readers
\* run once the file is written
InitRoundTrip ==
    /\ pc = "save_open"
    /\ cid = str(7)
    /\ danmu_list \in SeqsUpTo(SampleDanmu, MaxDanmu) \ {<<>>}
    /\ CollectorLocals
    /\ files \in InitialFiles
    /\ files0 = files
    /\ log = {"cid_ok", "danmu_ok"}
    /\ issued = {"view", "danmu"}
    /\ remote_pages = 0
    /\ ServerNotStarted

NextRoundTrip ==
    \/ SaveOpen
    \/ SaveWrite
    \/ SaveClose
    \/ LoadServer
    \/ ReadDanmuFile

SpecRoundTrip == InitRoundTrip /\ [][NextRoundTrip]_vars

\* main() calls crawl_comments (here after an overlay fetch that failed) for
\* a video whose reply pages outnumber the page cap
InitCrawl ==
    /\ pc = "crawl_comments"
    /\ cid = str(7)
    /\ danmu_list = <<>>
    /\ CollectorLocals
    /\ files \in InitialFiles
    /\ files0 = files
    /\ log = {"cid_ok", "danmu_exception"}
    /\ issued = {"view", "danmu"}
    /\ remote_pages = max_page + 1
    /\ ServerNotStarted

NextCrawl ==
    \/ CrawlPage
    \/ CrawlReturn
    \/ SaveOpen
    \/ SaveWrite
    \/ SaveClose

SpecCrawl == InitCrawl /\ [][NextCrawl]_vars

\* raw lines an overlay file may hold
SampleLines ==
    {<<"1", ".", " ", "a", "\n">>,
     <<"2", ".", " ", "b", "\n">>,
     <<"3", ".", " ", "a", ".", "b", "\n">>,
     <<"a", "b", "\n">>,
     <<"a", ".", "b", "\n">>,
     <<" ", "a">>}

\* what readlines can return: only the last line may lack its line break
LoadedFiles ==
    {f \in SeqsUpTo(SampleLines, MaxLines) :
        \A k \in 1..(Len(f) - 1) : f[k][Len(f[k])] = "\n"}

WordList(n) ==
    [i \in 1..n |-> [word |-> i, freq |-> n + 1 - i, pos |-> "unknown"]]

SomeSentiment == [total |-> 2, average |-> 500]

SearchQueries ==
    {[route |-> "search", has_keyword |-> h, keyword |-> k,
      limit_kind |-> "int", limit |-> l] :
        h \in {TRUE}, k \in {<<>>, <<"a">>, <<".">>, <<"a", ".", "b">>},
        l \in 0..(MaxLines + 1)}
    \cup {[route |-> "search", has_keyword |-> h, keyword |-> <<"a">>,
           limit_kind |-> lk, limit |-> 0] :
        h \in BOOLEAN, lk \in {"missing", "bad"}}

\* the collector is not running
CollectorAtRest ==
    /\ pc = "exit"
    /\ cid = <<>>
    /\ danmu_list = <<>>
    /\ CollectorLocals
    /\ files = [danmu |-> NoFile, comment |-> NoFile]
    /\ files0 = files
    /\ log = {}
    /\ issued = {}
    /\ remote_pages = 0

\* app.py has loaded its three artifacts
InitSearch ==
    /\ CollectorAtRest
    /\ word_freq_data = WordList(2)
    /\ sentiment_data = SomeSentiment
    /\ bilibili_danmu \in LoadedFiles
    /\ loaded = TRUE
    /\ df = <<>>
    /\ df_read = FALSE
    /\ ServerIdle

NextSearch ==
    \/ get_word_frequency(1)
    \/ get_sentiment_data(1)
    \/ \E q \in SearchQueries : SearchBegin(1, q)
    \/ SearchIter(1)
    \/ SearchReturn(1)
    \/ Receive(1)

SpecSearch == InitSearch /\ [][NextSearch]_vars

ServerFiles ==
    {<<<<"1", ".", " ", "a", "\n">>, <<"2", ".", " ", "a", ".", "b", "\n">>>>,
     <<<<"a", "b">>>>}

ServerQueries ==
    {[route |-> "search", has_keyword |-> TRUE, keyword |-> k,
      limit_kind |-> lk, limit |-> 1] :
        k \in {<<>>, <<"a">>}, lk \in {"int", "missing"}}

InitServer ==
    /\ CollectorAtRest
    /\ word_freq_data \in {WordList(n) : n \in {0, TopN, MaxWords}}
    /\ sentiment_data \in {NoSentiment, SomeSentiment}
    /\ bilibili_danmu \in ServerFiles
    /\ loaded = TRUE
    /\ df = <<>>
    /\ df_read = FALSE
    /\ ServerIdle

NextServer ==
    \E c \in Clients :
        \/ get_word_frequency(c)
        \/ get_sentiment_data(c)
        \/ \E q \in ServerQueries : SearchBegin(c, q)
        \/ SearchIter(c)
        \/ SearchReturn(c)
        \/ Receive(c)

SpecServer == InitServer /\ [][NextServer]_vars

----------------------------------------------------------------------------
(* Claims *)

\* a client holds the response of a search whose keyword was not empty
SearchAnswered(c) ==
    /\ hpc[c] = "responded"
    /\ hreq[c].route = "search"
    /\ arg_keyword(hreq[c]) # <<>>

\* save_data is not running on the file of that type
NotSaving(t) == ~(pc \in {"save_open", "save_write"} /\ save_type = t)

\* the complete text save_data writes for a list
FullText(t, data) ==
    Concat([k \in 1..Len(data) |-> Concat(RecordWrites(t, k, data[k]))])

\* C1: one run of crawl_comments never issues more than 100 reply-page
\* requests (the loop is bounded by the page cap whatever the responses).
C1_RequestsWithinCap == requests <= max_page

\* C2: for every search with a non-empty keyword and every integer limit,
\* total equals the number of entries of data and is never above limit.
C2_TotalWithinLimit ==
    \A c \in Clients :
        SearchAnswered(c) =>
            /\ response[c].total = Len(response[c].data)
            /\ response[c].total <= arg_limit(hreq[c])

\* C3: save_data is all-or-nothing per file: once a call has returned, the
\* file holds its complete new content or the content it had before the run.
C3_AllOrNothing ==
    \A t \in {"danmu", "comment"} :
        NotSaving(t) =>
            \/ files[t] = files0[t]
            \/ files[t] = [exists |-> TRUE,
                           text |-> FullText(t, IF t = "danmu" THEN danmu_list
                                                ELSE comment_list)]

\* C4: when the overlay request or its parsing fails at any point,
\* crawl_danmu returns the empty list and the overlay file is not written.
C4_FailureYieldsEmpty ==
    "danmu_exception" \in log =>
        /\ danmu_list = <<>>
        /\ files["danmu"] = files0["danmu"]
        /\ NotSaving("danmu")

\* C5: when content-id resolution fails in any way, get_video_cid returns ""
\* and the run aborts: no overlay or reply request is issued and neither
\* output file is created, truncated or written.
C5_CidFailureAborts ==
    ("cid_failed" \in log \/ "cid_exception" \in log) =>
        /\ cid = <<>>
        /\ pc = "exit"
        /\ issued = {"view"}
        /\ requests = 0
        /\ files = files0

C5_Witness ==
    /\ pc = "exit"
    /\ "cid_exception" \in log
    /\ files0["danmu"].exists

\* the claim's reading of a raw line: the text after the first '.', or the
\* whole line without one, with the white space at both ends removed
ClaimTrim(s) ==
    LET ink == {i \in 1..Len(s) : s[i] \notin Whitespace}
    IN IF ink = {} THEN <<>>
       ELSE LET lo == CHOOSE i \in ink : \A j \in ink : i <= j
                hi_ == CHOOSE i \in ink : \A j \in ink : j <= i
            IN [k \in 1..(hi_ - lo + 1) |-> s[lo + k - 1]]

ClaimContent(line) ==
    LET dots == {i \in 1..Len(line) : line[i] = "."}
    IN IF dots = {} THEN ClaimTrim(line)
       ELSE LET p == CHOOSE i \in dots : \A j \in dots : i <= j
            IN ClaimTrim([k \in 1..(Len(line) - p) |-> line[p + k]])

ClaimContains(content, keyword) ==
    \E off \in 0..Len(content) :
        /\ off + Len(keyword) <= Len(content)
        /\ \A k \in 1..Len(keyword) : content[off + k] = keyword[k]

\* the 1-based numbers of the lines whose content contains the keyword
MatchingLines(keyword) ==
    {k \in 1..Len(bilibili_danmu) :
        ClaimContains(ClaimContent(bilibili_danmu[k]), keyword)}

\* C6: for a search with a non-empty keyword and limit >= 1, data is exactly
\* the first min(limit, M) matching lines in file order, each with its
\* 1-based line number as index and its parsed content.
C6_FirstMatchesInOrder ==
    \A c \in Clients :
        (SearchAnswered(c) /\ arg_limit(hreq[c]) >= 1) =>
            LET M == MatchingLines(arg_keyword(hreq[c]))
                data == response[c].data
            IN /\ Len(data) = Min(arg_limit(hreq[c]), Cardinality(M))
               /\ \A j \in 1..Len(data) :
                    /\ data[j].index \in M
                    /\ Cardinality({m \in M : m < data[j].index}) = j - 1
                    /\ data[j].content =
                           ClaimContent(bilibili_danmu[data[j].index])

C6_Witness ==
    /\ SearchAnswered(1)
    /\ arg_limit(hreq[1]) = 1
    /\ Cardinality(MatchingLines(arg_keyword(hreq[1]))) = 2
    /\ response[1].total = 1

\* C7: a search whose keyword is missing or empty returns the error
\* envelope {status: "error", message} with no data, keyword or total key,
\* whatever the limit and the file, and examines no line.
C7_EmptyKeywordError ==
    \A c \in Clients :
        (/\ hpc[c] = "responded"
         /\ hreq[c].route = "search"
         /\ arg_keyword(hreq[c]) = <<>>) =>
            /\ DOMAIN response[c] = {"status", "message"}
            /\ response[c].status = "error"
            /\ hi[c] = 0
            /\ hresults[c] = <<>>

C7_Witness ==
    /\ hpc[1] = "responded"
    /\ hreq[1].route = "search"
    /\ ~hreq[1].has_keyword
    /\ response[1].status = "error"
    /\ Len(bilibili_danmu) = MaxLines

\* the response the handler gives when it runs alone on the loaded artifacts
AloneResponse(q) ==
    IF q.route = "word-frequency"
    THEN [status |-> "success", data |-> top_words(word_freq_data)]
    ELSE IF q.route = "sentiment-data"
    THEN [status |-> "success", data |-> sentiment_data]
    ELSE search_keyword(bilibili_danmu, q)

\* C8: no request, in any interleaving with the others, changes the three
\* loaded artifacts, and every response is the one the same request gets
\* when it runs alone.
C8_ArtifactsReadOnly ==
    [][/\ artifacts' = artifacts
       /\ \A c \in Clients :
            hpc'[c] = "responded" => response'[c] = AloneResponse(hreq'[c])
      ]_vars

C8_Witness ==
    /\ hpc[1] = "loop"
    /\ hi[1] = 1
    /\ hpc[2] = "responded"
    /\ hreq[2].route = "word-frequency"
    /\ Len(word_freq_data) > TopN
    /\ response[1].status = "success"

\* C9: page indexes are requested in non-decreasing order, and the list of
\* crawl_comments is, in page order then in-page order, the records of the
\* pages processed to the end, each with a non-empty trimmed message.
C9_ListIsProcessedPages ==
    /\ last_req <= page
    /\ comment_list = full_pages
    /\ \A k \in 1..Len(comment_list) : comment_list[k].content # <<>>

\* C10: after save_data has written the overlay comments, the file reads
\* back as one line per comment and the k-th line parses, in the Server and
\* in the Analyzer, to the k-th comment.
C10_RoundTrip ==
    /\ ("saved_danmu" \in log /\ loaded) =>
          /\ Len(bilibili_danmu) = Len(danmu_list)
          /\ \A k \in 1..Len(danmu_list) :
                parse_content(bilibili_danmu[k]) = danmu_list[k]
    /\ ("saved_danmu" \in log /\ df_read) =>
          /\ Len(df) = Len(danmu_list)
          /\ \A k \in 1..Len(danmu_list) : df[k].content = danmu_list[k]

====
